---- MODULE Spec2Model ----
(***************************************************************************)
(* The asynchronous prediction-job lifecycle of the lung-disease-detector  *)
(* frontend: the Upload view (components/Upload.jsx), its controller hook  *)
(* usePrediction (hooks/usePrediction.js) and the polling hook usePolling  *)
(* (hooks/usePolling.js) under React 18.                                   *)
(*                                                                         *)
(* The application is opened at "/" or, by a bookmark, at /result/<id>     *)
(* (the Result view of part_003).  One Upload instance is modelled from    *)
(* its mount to its unmount, plus                                          *)
(* whatever its timers and promises still do after the unmount.  State     *)
(* updates made in one handler or promise continuation are batched and     *)
(* committed with the step that makes them; the passive effect of          *)
(* usePolling runs as a step of its own after the commit (RunEffect).      *)
(* The 1500 ms poll interval is far longer than the delay between a commit *)
(* and its effect, so a timer never fires while an effect run is pending.  *)
(*                                                                         *)
(* Two further specifications share the module: HistorySpec, the History   *)
(* view and its getPredictionHistory requests, and AuthSpec, the           *)
(* AuthProvider (context/AuthContext.jsx) with the two localStorage        *)
(* entries and what ProtectedRoute renders under it.  Under Spec and       *)
(* DropSpec a doctor is signed in and the History view is not mounted.     *)
(***************************************************************************)
EXTENDS Integers, Sequences, FiniteSets, TLC

\* ---------------------------------------------------------------- bounds
\* submissions (uploadImage calls) explored
MaxUploads == 2
\* probes (getTaskStatus calls) explored beyond the attempt budget
ExtraProbes == 2
\* the maxAttempts option of usePolling.  usePrediction passes 40; the hook
\* is run here with the budget of 5 of the specification's scenario C, the
\* hook's code being the same for every budget
maxAttempts == 5

MaxProbes == maxAttempts + ExtraProbes

\* null / undefined of the source
Null == 0
\* utils/validators.js and Upload.jsx
ACCEPTED_TYPES == {"image/jpeg", "image/jpg", "image/png"}
MAX_FILE_SIZE_BYTES == 10 * 1024 * 1024
MIN_DIM == 224

\* the files a user can drop: MIME type, size in bytes, and the dimensions
\* getImageDimensions reads (readable = FALSE: the image does not decode)
Files ==
  [type : ACCEPTED_TYPES \cup {"image/gif"},
   size : {1024, MAX_FILE_SIZE_BYTES, MAX_FILE_SIZE_BYTES + 1},
   width : {MIN_DIM - 1, MIN_DIM}, height : {MIN_DIM - 1, MIN_DIM},
   readable : BOOLEAN]
\* no file selected (null)
NoFile == [type |-> "none", size |-> 0, width |-> 0, height |-> 0,
           readable |-> FALSE]
\* the chest X-ray of the polling scenarios
XRay == [type |-> "image/png", size |-> 1024, width |-> MIN_DIM,
         height |-> MIN_DIM, readable |-> TRUE]

\* a type check that lets every file through
AnyType(f) == TRUE
isImageFile(f) == f.type \in ACCEPTED_TYPES
isWithinSizeLimit(f) == f.size <= MAX_FILE_SIZE_BYTES

\* the <result> objects a response can carry (only the id is inspected)
Predictions == {[id |-> 5], [id |-> 9]}
NoPrediction == [id |-> Null]

\* the error strings a { status: "failed", error } answer can carry
Errors == {"x", "y"}
NoError == ""

\* the patient details of the Upload form, as handleSubmit passes them
MetaFields == {"patient_name", "patient_age", "patient_sex", "symptoms"}
NoDetails == [k \in MetaFields |-> ""]
Details ==
  {NoDetails, [NoDetails EXCEPT !["patient_name"] = "Ann", !["symptoms"] = "cough"]}
\* the default of uploadImage's second parameter: extraData = {}
NoExtraData == [k \in {} |-> ""]

\* the n-th submission, if dispatched, is answered with a fresh task id
TaskIdOf(n) == n
\* ... and, optionally, with the id of the provisional prediction record
PredictionIdOf(n) == 10 + n

VARIABLES
  \* --- router / toast (application-wide)
  route,        \* "upload" | "result" | "other": the view the router shows
  routeId,      \* the :id of /result/:id, Null before any handoff
  handoff,      \* location.state.prediction of the last navigate()
  view,         \* what the element of the current route rendered
  lastToast,    \* the last toast.error message, "none" before any
  \* --- the Upload instance
  mounted,      \* the instance is mounted (its setState calls take effect)
  file, isSubmitting, taskId, predictionId, prediction,   \* usePrediction
  attempts, isPolling,                                    \* usePolling
  timers,       \* pending setTimeout callbacks: the closure of tick and
                \* whether timerRef.current holds this timer's id
  effectDeps,   \* the dependencies of the last run of the polling effect
  hasCleanup,   \* that run returned a cleanup function
  \* --- requests in flight
  uploads,      \* uploadImage calls awaiting their response
  probes,       \* getTaskStatus calls awaiting their response, each with
                \* the closure of the tick that awaits it
  \* --- history
  jobs,         \* one record per uploadImage call, in call order: what the
                \* server answered and what was polled for its task
  stopPhase,    \* what was outstanding when the instance was unmounted
  \* --- the History instance
  items, page, count, historyLoading, diseaseFilter, search,
  fetches,      \* getPredictionHistory calls awaiting their response, each
                \* with the params it was called with
  fetched,      \* the number of getPredictionHistory calls so far
  fetchFailed,  \* one of them was rejected
  \* --- the AuthProvider
  user, loading,
  accessToken, refreshToken,   \* the two localStorage entries
  logins,       \* login() calls awaiting the response of /auth/login/
  loginCalls,   \* the number of login() calls so far
  loginResult,  \* what the last settled login() returned
  found         \* what getItem("accessToken") gave the last mount effect

historyVars == <<items, page, count, historyLoading, diseaseFilter, search,
                 fetches, fetched, fetchFailed>>
authVars == <<user, loading, accessToken, refreshToken, logins, loginCalls,
              loginResult, found>>

vars == <<route, routeId, handoff, view, lastToast, mounted, file, isSubmitting,
          taskId, predictionId, prediction, attempts, isPolling, timers,
          effectDeps, hasCleanup, uploads, probes, jobs, stopPhase,
          historyVars, authVars>>

routerVars == <<route, routeId, handoff, view>>
predictionVars == <<file, isSubmitting, taskId, predictionId, prediction>>
\* the router and the Upload instance, without the toast
uploadVars == <<routerVars, mounted, predictionVars, attempts, isPolling,
                timers, effectDeps, hasCleanup, uploads, probes, jobs,
                stopPhase>>

\* ------------------------------------------------------------------ views
\* what a routed element renders: its kind and the target of its back button
Page(kind) == [kind |-> kind, back |-> "none"]

\* the Result view given location.state.prediction, read without the
\* optional chaining and without the !prediction guard: a missing payload is
\* dereferenced
ResultUnguarded(p) ==
  IF p = NoPrediction
    THEN [kind |-> "crash", back |-> "none"]
    ELSE [kind |-> "details", back |-> "-1"]

\* the Result view given location.state?.prediction: the fallback message
\* with "Back to upload" when there is none, the details otherwise
Result(p) ==
  IF p = NoPrediction
    THEN [kind |-> "fallback", back |-> "/"]
    ELSE [kind |-> "details", back |-> "-1"]

\* the ids a bookmarked /result/<id> can name
BookmarkIds == {p.id : p \in Predictions}

\* ---------------------------------------------------------------- history
\* the Job of the n-th submission:
\*   resp        "pending" until the submission call settles, then the shape
\*               of its response: "cached", "dispatched" or "error"
\*   meta        the patient details handleSubmit passed to submit()
\*   form        the multipart fields of the POST /api/predict/ request
\*   pid         the prediction_id a dispatched response carried, or Null
\*   result      the prediction carried by the cache hit or the completed probe
\*   probes      getTaskStatus calls issued with this Job's task id
\*   processing  how many of them were answered { status: "processing" }
\*   errors      how many of them were rejected or unreachable (transport)
\*   handoffs    navigations to /result/<id> made for this Job
\*   reason      the error string of the { status: "failed" } answer
\*   fresh       every earlier Job was over when this one was submitted
\*   last        the last settled probe of the Job: "none", "processing",
\*               "completed", "failed", "error" (transport), or "exhausted"
\*               when tick stopped on the attempt budget
\* uploadImage(file, extraData): the FormData it posts, the image and every
\* entry of extraData whose value is present
FormData(f, extraData) ==
  [k \in {"image"} \cup {e \in DOMAIN extraData : extraData[e] # ""} |->
     IF k = "image" THEN f ELSE extraData[k]]

NewJob == [resp |-> "pending", result |-> NoPrediction, probes |-> 0,
           processing |-> 0, errors |-> 0, last |-> "none", reason |-> NoError,
           fresh |-> FALSE, pid |-> Null, handoffs |-> 0, meta |-> NoDetails,
           form |-> FormData(NoFile, NoExtraData)]

RECURSIVE SumProbes(_)
SumProbes(js) == IF js = << >> THEN 0 ELSE Head(js).probes + SumProbes(Tail(js))

\* number of uploadImage / getTaskStatus calls issued so far
uploadCalls == Len(jobs)
probeCalls == SumProbes(jobs)

\* ---------------------------------------------------------------- helpers
RemoveAt(s, i) == [j \in 1..(Len(s) - 1) |-> IF j < i THEN s[j] ELSE s[j + 1]]

\* a clearTimeout that cancels the newest pending timer, whatever the ref holds
ClearNewestTimeout(ts) == IF ts = << >> THEN ts ELSE SubSeq(ts, 1, Len(ts) - 1)

\* clearTimeout(timerRef.current): the timer whose id the ref holds, if it
\* is still pending, is removed; clearing a fired id or null does nothing
ClearTimeout(ts) == SelectSeq(ts, LAMBDA t : ~t.held)

\* timerRef.current = setTimeout(tick, interval), tick closing over the
\* attempts, taskId and predictionId of the render that created it
SetTimeout(ts, att, tid, pid) ==
  Append([j \in DOMAIN ts |-> [ts[j] EXCEPT !.held = FALSE]],
         [att |-> att, tid |-> tid, pid |-> pid, held |-> TRUE])

\* the cleanup function the enabled branch of the effect returns
Cleanup(ts) == IF hasCleanup THEN ClearTimeout(ts) ELSE ts

\* what is outstanding at an unmount
PhaseOf(ps, ts) ==
  IF ps # << >> THEN "inflight" ELSE IF ts # << >> THEN "timer" ELSE "idle"

\* disabled attribute of the submit button
SubmitDisabled == file = NoFile \/ isSubmitting \/ isPolling

\* the polling effect has to (re-)run: a dependency changed since its last run
Deps == [tid |-> taskId, pid |-> predictionId, att |-> attempts]
EffectPending == mounted /\ effectDeps # Deps

\* ------------------------------------------------------------------ Jobs
\* the Job states of the specification, read off the history of a Job
Submitting(n) == jobs[n].resp = "pending"
Polling(n) ==
  jobs[n].resp = "dispatched" /\ jobs[n].last \in {"none", "processing"}
\* probes of Job n in flight, timers pending for it, probes of it settled
InFlight(n) == Cardinality({i \in DOMAIN probes : probes[i].tid = n})
Scheduled(n) == Cardinality({i \in DOMAIN timers : timers[i].tid = n})
Settled(n) == jobs[n].probes - InFlight(n)
\* the terminal states of a Job: Succeeded (cache hit or "completed"),
\* Failed (rejected submission or "failed"), Exhausted
Terminal(n) ==
  \/ jobs[n].resp \in {"cached", "error"}
  \/ jobs[n].last \in {"completed", "failed", "exhausted"}
\* Job n is over and nothing of it is left behind
Quiet(n) == Terminal(n) /\ InFlight(n) = 0 /\ Scheduled(n) = 0

\* ----------------------------------------------------- the History view
\* the bound on getPredictionHistory calls in one behaviour
MaxFetches == 3

PER_PAGE == 10

\* the predictions the server holds: eleven rows (two pages), one of them
\* "Normal", one of them "Tuberculosis"
Rows ==
  [i \in 1..(PER_PAGE + 1) |->
     [id |-> i,
      predicted_class |-> IF i = 3 THEN "Normal" ELSE
                          IF i = 2 THEN "Tuberculosis" ELSE "Viral Pneumonia"]]

\* the values of the disease filter and of the search box ("Search by ID
\* or disease"): "zz" matches no row
DiseaseFilters == {"", "Normal"}
Searches == {"", "Tuberculosis", "zz"}

\* the params object fetchData builds: predicted_class and search only when
\* they are non-empty
Params(p, f, s) ==
  [k \in {"page"} \cup (IF f # "" THEN {"predicted_class"} ELSE {})
                  \cup (IF s # "" THEN {"search"} ELSE {}) |->
     IF k = "page" THEN [n |-> p, text |-> ""] ELSE
     IF k = "predicted_class" THEN [n |-> 0, text |-> f]
                              ELSE [n |-> 0, text |-> s]]

\* the rows GET /predictions/ selects for these params
Matches(params) ==
  SelectSeq(Rows, LAMBDA r :
    /\ "predicted_class" \in DOMAIN params
         => r.predicted_class = params["predicted_class"].text
    /\ "search" \in DOMAIN params => r.predicted_class = params["search"].text)

Min(a, b) == IF a < b THEN a ELSE b

\* the response to getPredictionHistory(params): the page of rows and the
\* number of rows that match
ResponseTo(params) ==
  LET all == Matches(params)
      first == (params["page"].n - 1) * PER_PAGE + 1
  IN  [results |-> SubSeq(all, first, Min(Len(all), first + PER_PAGE - 1)),
       count |-> Len(all)]

\* Math.max(1, Math.ceil(count / PER_PAGE))
totalPages == IF count = 0 THEN 1 ELSE (count + PER_PAGE - 1) \div PER_PAGE

\* the state of a History instance before its first effect
HistoryInit ==
  /\ items = << >> /\ page = 1 /\ count = 0 /\ historyLoading = FALSE
  /\ diseaseFilter = "" /\ search = ""
  /\ fetches = << >> /\ fetched = 0 /\ fetchFailed = FALSE

\* ---------------------------------------------------- the AuthProvider
\* the bound on login() calls in one behaviour
MaxLogins == 2

\* localStorage.getItem of a key that is not stored, and a null user
NoToken == "none"
NoUser == [username |-> "none", is_superuser |-> FALSE]

\* the access tokens: of a doctor, of a superuser, one whose exp has passed,
\* and a string that is not a JWT
AccessTokens == {"doctor.jwt", "admin.jwt", "expired.jwt", "garbage"}
RefreshTokens == {"refresh.jwt"}
\* the access tokens /auth/login/ can answer with
LoginTokens == {"doctor.jwt", "admin.jwt", "garbage"}

\* jwtDecode(t) throws
Undecodable(t) == t = "garbage"
\* decoded.exp * 1000 < Date.now()
Expired(t) == t = "expired.jwt"
\* { username: decoded.username || decoded.user_id, ...decoded }
UserOf(t) ==
  [username |-> IF t = "admin.jwt" THEN "admin" ELSE "doctor",
   is_superuser |-> t = "admin.jwt"]

\* a doctor is signed in: what the protected views are rendered under
SignedIn ==
  /\ user = UserOf("doctor.jwt") /\ loading = FALSE
  /\ accessToken = "doctor.jwt" /\ refreshToken = "refresh.jwt"
  /\ logins = << >> /\ loginCalls = 0 /\ loginResult = "none"
  /\ found = "doctor.jwt"

\* what ProtectedRoute renders: the spinner, a Navigate to a path, or its
\* children
ProtectedRouteNoAdminCheck(requireAdmin) ==
  IF loading THEN "spinner" ELSE
  IF user = NoUser THEN "/login" ELSE "children"

ProtectedRoute(requireAdmin) ==
  IF loading THEN "spinner" ELSE
  IF user = NoUser THEN "/login" ELSE
  IF requireAdmin /\ ~user.is_superuser THEN "/" ELSE "children"

\* ------------------------------------------------------------------- Init
\* no file is selected and nothing has been submitted
NothingSubmitted ==
  /\ handoff = NoPrediction
  /\ lastToast = "none"
  /\ file = NoFile /\ isSubmitting = FALSE /\ taskId = Null
  /\ predictionId = Null /\ prediction = NoPrediction
  /\ attempts = 0 /\ isPolling = FALSE
  /\ timers = << >>
  /\ effectDeps = [tid |-> Null, pid |-> Null, att |-> -1]
  /\ hasCleanup = FALSE
  /\ uploads = << >> /\ probes = << >>
  /\ jobs = << >> /\ stopPhase = "none"

\* the router shows a view other than Upload and Result
Elsewhere ==
  /\ route = "other" /\ routeId = Null /\ mounted = FALSE
  /\ view = Page("other")

\* the application is opened at "/" (the Upload view mounts) or, by a
\* bookmark, at /result/<id> (no Upload instance yet, no location state)
Init ==
  /\ \/ /\ route = "upload" /\ routeId = Null /\ mounted = TRUE
        /\ view = Page("upload")
     \/ /\ route = "result" /\ routeId \in BookmarkIds /\ mounted = FALSE
        /\ view = Result(NoPrediction)
  /\ NothingSubmitted
  /\ HistoryInit
  /\ SignedIn

\* ---------------------------------------------------------------- actions
\* "Back to upload" of the Result view's fallback: navigate("/") mounts the
\* Upload view
BackToUpload ==
  /\ route = "result" /\ view.back = "/"
  /\ route' = "upload" /\ routeId' = Null /\ view' = Page("upload")
  /\ mounted' = TRUE
  /\ UNCHANGED <<historyVars, authVars>>
  /\ UNCHANGED <<handoff, lastToast, predictionVars, attempts, isPolling,
                 timers, effectDeps, hasCleanup, uploads, probes, jobs,
                 stopPhase>>

\* onDrop(picked): the checks in the order of the code, each ending with a
\* toast and a return; setFile(picked) when all pass
Drop(picked) ==
  /\ mounted
  /\ IF ~isImageFile(picked)
       THEN /\ lastToast' = "Only JPG and PNG images are allowed."
            /\ file' = file
       ELSE IF ~isWithinSizeLimit(picked)
       THEN /\ lastToast' = "File too large. Maximum allowed size is 10MB."
            /\ file' = file
       ELSE IF ~picked.readable
       THEN /\ lastToast' = "Could not read image dimensions."
            /\ file' = file
       ELSE IF picked.width < MIN_DIM \/ picked.height < MIN_DIM
       THEN /\ lastToast' =
                 "Image dimensions are too small for reliable analysis."
            /\ file' = file
       ELSE /\ lastToast' = lastToast
            /\ file' = picked
  /\ UNCHANGED <<historyVars, authVars>>
  /\ UNCHANGED <<routerVars, mounted, isSubmitting, taskId, predictionId,
                 prediction, attempts, isPolling, timers, effectDeps,
                 hasCleanup, uploads, probes, jobs, stopPhase>>

\* the user drops the chest X-ray (once)
SelectFile == file = NoFile /\ Drop(XRay)

\* the user presses the (enabled) submit button: handleSubmit calls
\* submit(details); submit declares no parameter and calls uploadImage(file)
Submit(details) ==
  /\ mounted /\ ~SubmitDisabled
  /\ uploadCalls < MaxUploads
  /\ isSubmitting' = TRUE
  /\ uploads' = Append(uploads, [n |-> uploadCalls + 1])
  /\ jobs' = Append(jobs, [NewJob EXCEPT
                            !.fresh = \A k \in DOMAIN jobs : Quiet(k),
                            !.meta = details,
                            !.form = FormData(file, NoExtraData)])
  /\ UNCHANGED <<historyVars, authVars>>
  /\ UNCHANGED <<routerVars, lastToast, mounted, file, taskId, predictionId,
                 prediction, attempts, isPolling, timers, effectDeps,
                 hasCleanup, probes, stopPhase>>

\* a submit() without a file that issues the request all the same
SubmitWithoutFileUploads(details) ==
  /\ mounted /\ file = NoFile
  /\ uploadCalls < MaxUploads
  /\ isSubmitting' = TRUE
  /\ uploads' = Append(uploads, [n |-> uploadCalls + 1])
  /\ jobs' = Append(jobs, [NewJob EXCEPT !.meta = details])
  /\ UNCHANGED <<historyVars, authVars>>
  /\ UNCHANGED <<routerVars, lastToast, mounted, file, taskId, predictionId,
                 prediction, attempts, isPolling, timers, effectDeps,
                 hasCleanup, probes, stopPhase>>

\* submit() is called while no file is selected: it toasts and returns.
\* (The Upload view disables its button then; the call is that of any other
\* caller of the hook's submit.)
SubmitWithoutFile(details) ==
  /\ mounted /\ file = NoFile
  /\ lastToast' = "Please select an image first."
  /\ UNCHANGED <<historyVars, authVars>>
  /\ UNCHANGED <<routerVars, mounted, predictionVars, attempts, isPolling,
                 timers, effectDeps, hasCleanup, uploads, probes, jobs,
                 stopPhase>>

\* the usePolling effect runs: cleanup of the previous run, then the body
RunEffect ==
  /\ EffectPending
  /\ effectDeps' = Deps
  /\ IF taskId = Null
       THEN /\ timers' = ClearTimeout(Cleanup(timers))
            /\ isPolling' = FALSE
            /\ hasCleanup' = FALSE
       ELSE /\ timers' = SetTimeout(Cleanup(timers), attempts, taskId, predictionId)
            /\ isPolling' = TRUE
            /\ hasCleanup' = TRUE
  /\ UNCHANGED <<historyVars, authVars>>
  /\ UNCHANGED <<routerVars, lastToast, mounted, predictionVars, attempts,
                 uploads, probes, jobs, stopPhase>>

\* the user leaves the Upload view (Navbar link): React unmounts the
\* instance and runs the effect's cleanup.  React flushes a pending effect
\* before it renders the unmount, so the unmount follows RunEffect
Unmount ==
  /\ mounted /\ ~EffectPending
  /\ mounted' = FALSE
  /\ route' = "other" /\ view' = Page("other")
  /\ timers' = Cleanup(timers)
  /\ stopPhase' = PhaseOf(probes, timers)
  /\ UNCHANGED <<historyVars, authVars>>
  /\ UNCHANGED <<routeId, handoff, lastToast, predictionVars, attempts,
                 isPolling, effectDeps, hasCleanup, uploads, probes, jobs>>

\* navigate(`/result/${p.id}`, { state: { prediction: p } }): the router
\* shows the Result view, which unmounts a mounted Upload instance.  (An
\* effect run still pending then is flushed first: its timer is the one
\* timerRef holds, and the cleanup of the unmount clears it again.)
NavigateToResult(p, ps) ==
  /\ route' = "result" /\ routeId' = p.id /\ handoff' = p
  /\ view' = Result(p)
  /\ mounted' = FALSE
  /\ timers' = IF mounted THEN Cleanup(timers) ELSE timers
  /\ stopPhase' = IF mounted THEN PhaseOf(ps, timers) ELSE stopPhase

\* ------------------------------------------------- submission responses
\* a cache hit taken for a dispatch: the task branch instead of the
\* prediction branch
UploadCachedAsDispatched(i, p) ==
  /\ i \in DOMAIN uploads
  /\ uploads' = RemoveAt(uploads, i)
  /\ jobs' = [jobs EXCEPT ![uploads[i].n].resp = "cached",
                          ![uploads[i].n].result = p]
  /\ IF mounted
       THEN /\ taskId' = TaskIdOf(uploads[i].n)
            /\ isSubmitting' = FALSE
       ELSE UNCHANGED <<taskId, isSubmitting>>
  /\ UNCHANGED <<historyVars, authVars>>
  /\ UNCHANGED <<routerVars, lastToast, mounted, file, predictionId, prediction,
                 attempts, isPolling, timers, effectDeps, hasCleanup, probes,
                 stopPhase>>

\* POST /api/predict/ answers { cached: true, prediction: p }
UploadCached(i, p) ==
  /\ i \in DOMAIN uploads
  /\ uploads' = RemoveAt(uploads, i)
  /\ jobs' = [jobs EXCEPT ![uploads[i].n].resp = "cached",
                          ![uploads[i].n].result = p,
                          ![uploads[i].n].handoffs = @ + 1]
  /\ prediction' = IF mounted THEN p ELSE prediction
  /\ NavigateToResult(p, probes)
  /\ isSubmitting' = IF mounted THEN FALSE ELSE isSubmitting
  /\ UNCHANGED <<historyVars, authVars>>
  /\ UNCHANGED <<lastToast, file, taskId, predictionId, attempts, isPolling,
                 effectDeps, hasCleanup, probes>>

\* a dispatched response whose prediction_id is not stored
UploadDispatchedNoHint(i, withPredictionId) ==
  /\ i \in DOMAIN uploads
  /\ uploads' = RemoveAt(uploads, i)
  /\ jobs' = [jobs EXCEPT ![uploads[i].n].resp = "dispatched",
                          ![uploads[i].n].pid =
                             IF withPredictionId
                               THEN PredictionIdOf(uploads[i].n) ELSE Null]
  /\ IF mounted
       THEN /\ taskId' = TaskIdOf(uploads[i].n)
            /\ isSubmitting' = FALSE
       ELSE UNCHANGED <<taskId, isSubmitting>>
  /\ UNCHANGED <<historyVars, authVars>>
  /\ UNCHANGED <<routerVars, lastToast, mounted, file, predictionId, prediction,
                 attempts, isPolling, timers, effectDeps, hasCleanup, probes,
                 stopPhase>>

\* POST /api/predict/ answers { task_id, cached: false, prediction_id? }
UploadDispatched(i, withPredictionId) ==
  /\ i \in DOMAIN uploads
  /\ uploads' = RemoveAt(uploads, i)
  /\ jobs' = [jobs EXCEPT ![uploads[i].n].resp = "dispatched",
                          ![uploads[i].n].pid =
                             IF withPredictionId
                               THEN PredictionIdOf(uploads[i].n) ELSE Null]
  /\ IF mounted
       THEN /\ taskId' = TaskIdOf(uploads[i].n)
            /\ predictionId' = IF withPredictionId
                                 THEN PredictionIdOf(uploads[i].n)
                                 ELSE predictionId
            /\ isSubmitting' = FALSE
       ELSE UNCHANGED <<taskId, predictionId, isSubmitting>>
  /\ UNCHANGED <<historyVars, authVars>>
  /\ UNCHANGED <<routerVars, lastToast, mounted, file, prediction, attempts,
                 isPolling, timers, effectDeps, hasCleanup, probes, stopPhase>>

\* a rejected submission without the finally block: isSubmitting stays set
UploadFailsNoFinally(i) ==
  /\ i \in DOMAIN uploads
  /\ uploads' = RemoveAt(uploads, i)
  /\ jobs' = [jobs EXCEPT ![uploads[i].n].resp = "error"]
  /\ lastToast' = "Network Error"
  /\ UNCHANGED <<historyVars, authVars>>
  /\ UNCHANGED <<routerVars, mounted, predictionVars, attempts, isPolling,
                 timers, effectDeps, hasCleanup, probes, stopPhase>>

\* POST /api/predict/ is rejected or unreachable: the response interceptor
\* toasts the message, submit()'s finally resets isSubmitting
UploadFails(i) ==
  /\ i \in DOMAIN uploads
  /\ uploads' = RemoveAt(uploads, i)
  /\ jobs' = [jobs EXCEPT ![uploads[i].n].resp = "error"]
  /\ lastToast' = "Network Error"
  /\ isSubmitting' = IF mounted THEN FALSE ELSE isSubmitting
  /\ UNCHANGED <<historyVars, authVars>>
  /\ UNCHANGED <<routerVars, mounted, file, taskId, predictionId, prediction,
                 attempts, isPolling, timers, effectDeps, hasCleanup, probes,
                 stopPhase>>

\* ------------------------------------------------------------- polling
\* a pending timer fires: tick calls fn() = startPolling(), which issues
\* getTaskStatus(taskId, predictionId) and awaits the response
TimerFire(i) ==
  /\ i \in DOMAIN timers
  /\ ~EffectPending
  /\ probeCalls < MaxProbes
  /\ timers' = RemoveAt(timers, i)
  /\ probes' = Append(probes, [att |-> timers[i].att, tid |-> timers[i].tid,
                               pid |-> timers[i].pid])
  /\ jobs' = [jobs EXCEPT ![timers[i].tid].probes = @ + 1]
  /\ UNCHANGED <<historyVars, authVars>>
  /\ UNCHANGED <<routerVars, lastToast, mounted, predictionVars, attempts,
                 isPolling, effectDeps, hasCleanup, uploads, stopPhase>>

\* GET /api/task/<id>/ answers { status: "completed", prediction: p }:
\* startPolling stores p, navigates and returns false; tick stops
ProbeCompleted(i, p) ==
  /\ i \in DOMAIN probes
  /\ probes' = RemoveAt(probes, i)
  /\ jobs' = [jobs EXCEPT ![probes[i].tid].last = "completed",
                          ![probes[i].tid].result = p,
                          ![probes[i].tid].handoffs = @ + 1]
  /\ prediction' = IF mounted THEN p ELSE prediction
  /\ NavigateToResult(p, probes')
  /\ isPolling' = IF mounted THEN FALSE ELSE isPolling
  /\ UNCHANGED <<historyVars, authVars>>
  /\ UNCHANGED <<lastToast, file, isSubmitting, taskId, predictionId,
                 attempts, effectDeps, hasCleanup, uploads>>

\* GET /api/task/<id>/ answers { status: "failed", error }: startPolling
\* toasts and returns false; tick stops
ProbeFailed(i, e) ==
  /\ i \in DOMAIN probes
  /\ probes' = RemoveAt(probes, i)
  /\ jobs' = [jobs EXCEPT ![probes[i].tid].last = "failed",
                          ![probes[i].tid].reason = e]
  /\ lastToast' = "Prediction failed. Please try again."
  /\ isPolling' = IF mounted THEN FALSE ELSE isPolling
  /\ UNCHANGED <<historyVars, authVars>>
  /\ UNCHANGED <<routerVars, mounted, predictionVars, attempts, timers,
                 effectDeps, hasCleanup, uploads, stopPhase>>

\* GET /api/task/<id>/ answers { status: "processing" }: startPolling
\* returns true; tick counts the attempt and either stops on the budget
\* (judged by the attempts of its own render) or schedules itself again
ProbeProcessing(i) ==
  /\ i \in DOMAIN probes
  /\ probes' = RemoveAt(probes, i)
  /\ attempts' = IF mounted THEN attempts + 1 ELSE attempts
  /\ IF probes[i].att + 1 >= maxAttempts
       THEN /\ isPolling' = IF mounted THEN FALSE ELSE isPolling
            /\ timers' = timers
            /\ jobs' = [jobs EXCEPT ![probes[i].tid].last = "exhausted",
                                    ![probes[i].tid].processing = @ + 1]
       ELSE /\ isPolling' = isPolling
            /\ timers' = SetTimeout(timers, probes[i].att, probes[i].tid,
                                    probes[i].pid)
            /\ jobs' = [jobs EXCEPT ![probes[i].tid].last = "processing",
                                    ![probes[i].tid].processing = @ + 1]
  /\ UNCHANGED <<historyVars, authVars>>
  /\ UNCHANGED <<routerVars, lastToast, mounted, predictionVars, effectDeps,
                 hasCleanup, uploads, stopPhase>>

\* GET /api/task/<id>/ is rejected or unreachable: the response interceptor
\* toasts the message, the promise rejects and tick's catch stops polling
ProbeThrows(i) ==
  /\ i \in DOMAIN probes
  /\ probes' = RemoveAt(probes, i)
  /\ jobs' = [jobs EXCEPT ![probes[i].tid].last = "error",
                          ![probes[i].tid].errors = @ + 1]
  /\ lastToast' = "Network Error"
  /\ isPolling' = IF mounted THEN FALSE ELSE isPolling
  /\ UNCHANGED <<historyVars, authVars>>
  /\ UNCHANGED <<routerVars, mounted, predictionVars, attempts, timers,
                 effectDeps, hasCleanup, uploads, stopPhase>>

Next ==
  \/ BackToUpload
  \/ SelectFile
  \/ \E d \in Details : Submit(d)
  \/ \E d \in Details : SubmitWithoutFile(d)
  \/ RunEffect
  \/ Unmount
  \/ \E i \in 1..MaxUploads, p \in Predictions : UploadCached(i, p)
  \/ \E i \in 1..MaxUploads, w \in BOOLEAN : UploadDispatched(i, w)
  \/ \E i \in 1..MaxUploads : UploadFails(i)
  \/ \E i \in DOMAIN timers : TimerFire(i)
  \/ \E i \in DOMAIN probes, p \in Predictions : ProbeCompleted(i, p)
  \/ \E i \in DOMAIN probes, e \in Errors : ProbeFailed(i, e)
  \/ \E i \in DOMAIN probes : ProbeProcessing(i)
  \/ \E i \in DOMAIN probes : ProbeThrows(i)

Spec == Init /\ [][Next]_vars

\* ------------------------------------------------------- file selection
\* the Upload view with every kind of file dropped on it, any number of
\* times, and submissions that are rejected (so that another can follow)
DropNext ==
  \/ BackToUpload
  \/ \E f \in Files : Drop(f)
  \/ \E d \in Details : Submit(d)
  \/ \E i \in 1..MaxUploads : UploadFails(i)

DropSpec == Init /\ [][DropNext]_vars

\* ------------------------------------------------------- the History view
\* the effect of History for the dependencies (p, f, s): fetchData sets
\* loading and calls getPredictionHistory(params).  The effect runs in the
\* commit of the state change that altered a dependency, so it is one step
\* with the handler that made the change
fetchData(p, f, s) ==
  /\ fetched < MaxFetches
  /\ page' = p /\ diseaseFilter' = f /\ search' = s
  /\ historyLoading' = TRUE
  /\ fetches' = Append(fetches, Params(p, f, s))
  /\ fetched' = fetched + 1
  /\ UNCHANGED <<items, count, fetchFailed>>
  /\ UNCHANGED <<uploadVars, lastToast, authVars>>

\* the first run of the effect, when History mounts
HistoryMount == fetched = 0 /\ fetchData(page, diseaseFilter, search)

\* onChange of the search box: setPage(1); setSearch(value)
ChangeSearch(s) == fetched > 0 /\ s # search /\ fetchData(1, diseaseFilter, s)

\* onChange of the disease filter: setPage(1); setDiseaseFilter(value)
ChangeFilter(f) == fetched > 0 /\ f # diseaseFilter /\ fetchData(1, f, search)

\* the Previous and Next buttons, rendered when count > 0
PreviousPage ==
  /\ fetched > 0 /\ count > 0 /\ page > 1
  /\ fetchData(page - 1, diseaseFilter, search)

NextPage ==
  /\ fetched > 0 /\ count > 0 /\ page < totalPages
  /\ fetchData(Min(totalPages, page + 1), diseaseFilter, search)

\* a getPredictionHistory call resolves: setItems, setCount, and the
\* finally's setLoading(false)
FetchResolves(i) ==
  /\ i \in DOMAIN fetches
  /\ items' = ResponseTo(fetches[i]).results
  /\ count' = ResponseTo(fetches[i]).count
  /\ historyLoading' = FALSE
  /\ fetches' = RemoveAt(fetches, i)
  /\ UNCHANGED <<page, diseaseFilter, search, fetched, fetchFailed>>
  /\ UNCHANGED <<uploadVars, lastToast, authVars>>

\* a getPredictionHistory call is rejected: the interceptor toasts the
\* error, the finally runs setLoading(false)
FetchRejected(i, e) ==
  /\ i \in DOMAIN fetches
  /\ lastToast' = e
  /\ historyLoading' = FALSE
  /\ fetchFailed' = TRUE
  /\ fetches' = RemoveAt(fetches, i)
  /\ UNCHANGED <<items, count, page, diseaseFilter, search, fetched>>
  /\ UNCHANGED <<uploadVars, authVars>>

HistoryNext ==
  \/ HistoryMount
  \/ \E s \in Searches : ChangeSearch(s)
  \/ \E f \in DiseaseFilters : ChangeFilter(f)
  \/ PreviousPage
  \/ NextPage
  \/ \E i \in 1..MaxFetches : FetchResolves(i)
  \/ \E i \in 1..MaxFetches, e \in Errors : FetchRejected(i, e)

\* a signed-in doctor opens /history
HistoryStart == Elsewhere /\ NothingSubmitted /\ HistoryInit /\ SignedIn

HistorySpec == HistoryStart /\ [][HistoryNext]_vars

\* ------------------------------------------------------ the AuthProvider
\* the mount effect: a stored access token that does not decode or has
\* expired is removed with the refresh token; one that is valid signs its
\* user in; setLoading(false) in every case
AuthMountKeepsExpired ==
  /\ loading
  /\ found' = accessToken
  /\ IF accessToken = NoToken
       THEN UNCHANGED <<user, accessToken, refreshToken>>
       ELSE IF Undecodable(accessToken)
              THEN /\ accessToken' = NoToken /\ refreshToken' = NoToken
                   /\ user' = NoUser
              ELSE IF Expired(accessToken)
                     THEN /\ user' = NoUser
                          /\ UNCHANGED <<accessToken, refreshToken>>
                     ELSE /\ user' = UserOf(accessToken)
                          /\ UNCHANGED <<accessToken, refreshToken>>
  /\ loading' = FALSE
  /\ UNCHANGED <<logins, loginCalls, loginResult>>
  /\ UNCHANGED <<uploadVars, lastToast, historyVars>>

AuthMount ==
  /\ loading
  /\ found' = accessToken
  /\ IF accessToken = NoToken
       THEN UNCHANGED <<user, accessToken, refreshToken>>
       ELSE IF Undecodable(accessToken) \/ Expired(accessToken)
              THEN /\ accessToken' = NoToken /\ refreshToken' = NoToken
                   /\ user' = NoUser
              ELSE /\ user' = UserOf(accessToken)
                   /\ UNCHANGED <<accessToken, refreshToken>>
  /\ loading' = FALSE
  /\ UNCHANGED <<logins, loginCalls, loginResult>>
  /\ UNCHANGED <<uploadVars, lastToast, historyVars>>

\* login(username, password) up to its await: POST /auth/login/
Login ==
  /\ ~loading /\ loginCalls < MaxLogins
  /\ logins' = Append(logins, loginCalls + 1)
  /\ loginCalls' = loginCalls + 1
  /\ UNCHANGED <<user, loading, accessToken, refreshToken, loginResult, found>>
  /\ UNCHANGED <<uploadVars, lastToast, historyVars>>

\* the request resolves with { access, refresh }: both are stored, then
\* access is decoded; a throw of jwtDecode is caught and login returns
\* success: false
LoginResolves(i, access, refresh) ==
  /\ i \in DOMAIN logins
  /\ logins' = RemoveAt(logins, i)
  /\ accessToken' = access /\ refreshToken' = refresh
  /\ IF Undecodable(access)
       THEN /\ loginResult' = "success: false"
            /\ UNCHANGED user
       ELSE /\ user' = UserOf(access)
            /\ loginResult' = "success: true"
  /\ UNCHANGED <<loading, loginCalls, found>>
  /\ UNCHANGED <<uploadVars, lastToast, historyVars>>

\* the request is rejected: the interceptor toasts the error, login
\* returns success: false
LoginRejected(i, e) ==
  /\ i \in DOMAIN logins
  /\ logins' = RemoveAt(logins, i)
  /\ lastToast' = e
  /\ loginResult' = "success: false"
  /\ UNCHANGED <<user, loading, accessToken, refreshToken, loginCalls, found>>
  /\ UNCHANGED <<uploadVars, historyVars>>

\* logout(), the Navbar button shown when there is a user
Logout ==
  /\ ~loading /\ user # NoUser
  /\ accessToken' = NoToken /\ refreshToken' = NoToken
  /\ user' = NoUser
  /\ UNCHANGED <<loading, logins, loginCalls, loginResult, found>>
  /\ UNCHANGED <<uploadVars, lastToast, historyVars>>

\* the page is reloaded: a new AuthProvider with its initial state, the
\* storage as it was, the pending login() calls gone with the old page
Reload ==
  /\ ~loading
  /\ user' = NoUser /\ loading' = TRUE
  /\ logins' = << >> /\ loginResult' = "none"
  /\ UNCHANGED <<accessToken, refreshToken, loginCalls, found>>
  /\ UNCHANGED <<uploadVars, lastToast, historyVars>>

AuthNext ==
  \/ AuthMount
  \/ Login
  \/ \E i \in 1..MaxLogins, a \in LoginTokens, r \in RefreshTokens :
       LoginResolves(i, a, r)
  \/ \E i \in 1..MaxLogins, e \in Errors : LoginRejected(i, e)
  \/ Logout
  \/ Reload

\* the application is opened with anything in the storage
AuthStart ==
  /\ Elsewhere /\ NothingSubmitted /\ HistoryInit
  /\ user = NoUser /\ loading = TRUE
  /\ accessToken \in AccessTokens \cup {NoToken}
  /\ refreshToken \in RefreshTokens \cup {NoToken}
  /\ logins = << >> /\ loginCalls = 0 /\ loginResult = "none"
  /\ found = "unmounted"

AuthSpec == AuthStart /\ [][AuthNext]_vars

\* ---------------------------------------------------------------- claims
\* C1: no uploadImage call is issued while a Job is Submitting or Polling.
C1_NoSubmissionWhileActive ==
  [][Len(jobs') > Len(jobs) =>
       \A n \in DOMAIN jobs : ~Submitting(n) /\ ~Polling(n)]_vars

\* C2: while every probe of the (only) Job is answered "processing", at most
\* maxAttempts probes are issued, and once maxAttempts of them have settled
\* the Job is Exhausted and no timer is pending.
C2_ExhaustedAfterMaxAttempts ==
  (mounted /\ Len(jobs) = 1 /\ jobs[1].processing = Settled(1)) =>
    /\ jobs[1].probes <= maxAttempts
    /\ jobs[1].processing = maxAttempts =>
         jobs[1].last = "exhausted" /\ timers = << >>

\* C3: a probe response that settles after the unmount changes nothing the
\* user can see: no route change, no handoff, no toast, no result.
C3_StaleResponseDiscarded ==
  [][(~mounted /\ Len(probes') < Len(probes)) =>
       UNCHANGED <<route, routeId, handoff, lastToast, prediction>>]_vars

\* C4: after the unmount no probe is issued and no timer is scheduled.
C4_NoProbeAfterStop ==
  [][~mounted =>
       probeCalls' = probeCalls /\ Len(timers') <= Len(timers)]_vars

\* C5: an unmount between two ticks (a timer pending, no probe in flight)
\* leaves no timer behind, so the next tick never fires.
C5_StopBetweenTicks ==
  stopPhase = "timer" => timers = << >> /\ probes = << >>

\* C6: the probes of a Job are sequential: at most one probe of a Job is in
\* flight.
C6_OneProbeInFlight == \A n \in DOMAIN jobs : InFlight(n) <= 1

\* C7: at most one timer is pending for a Job, and timerRef holds every
\* pending timer, so that the cleanup can cancel it.
C7_OnePendingTimer ==
  /\ \A n \in DOMAIN jobs : Scheduled(n) <= 1
  /\ \A i \in DOMAIN timers : timers[i].held

\* C8: the step that applies a cache hit hands the carried prediction to the
\* Result view under its own id, stores it as the result, and starts no
\* polling; no probe is ever issued or scheduled for a cache-hit Job.
C8_CacheHitSucceedsWithoutPolling ==
  [][\A n \in DOMAIN jobs' :
       jobs'[n].resp = "cached" =>
         /\ jobs'[n].probes = 0
         /\ \A i \in DOMAIN timers' : timers'[i].tid # n
         /\ (n \in DOMAIN jobs /\ jobs[n].resp = "pending") =>
              /\ route' = "result"
              /\ handoff' = jobs'[n].result
              /\ routeId' = jobs'[n].result.id
              /\ mounted => prediction' = jobs'[n].result
              /\ taskId' = taskId
              /\ probes' = probes
              /\ Len(timers') <= Len(timers)]_vars

\* C8 witness: scenario A, a cache hit carrying prediction 5 was applied to
\* the mounted instance.
C8_Witness ==
  /\ Len(jobs) = 1 /\ jobs[1].resp = "cached" /\ jobs[1].result.id = 5
  /\ prediction.id = 5 /\ route = "result" /\ routeId = 5

\* C9: a Job whose probe was answered "completed" after k "processing"
\* answers has had exactly k + 1 probes, and none is pending or in flight.
C9_CompletedAfterKPlusOne ==
  \A n \in DOMAIN jobs :
    jobs[n].last = "completed" =>
      /\ jobs[n].probes = jobs[n].processing + 1
      /\ Scheduled(n) = 0 /\ InFlight(n) = 0

\* C10: a Job whose probe was answered "failed" is polled no further: no
\* timer is pending and no probe is in flight for it, and it has had one
\* probe more than it had "processing" answers.
C10_FailedStopsPolling ==
  \A n \in DOMAIN jobs :
    jobs[n].last = "failed" =>
      /\ jobs[n].probes = jobs[n].processing + 1
      /\ Scheduled(n) = 0 /\ InFlight(n) = 0

\* C11: the step on which a probe of a Job is answered { failed, error: e }
\* surfaces e itself: the toast shown is the server's reason.
C11_FailureCarriesReason ==
  [][\A n \in DOMAIN jobs :
       (jobs'[n].last = "failed" /\ Len(probes') < Len(probes)
          /\ jobs'[n] # jobs[n]) =>
         lastToast' = jobs'[n].reason]_vars

\* C12: the step on which a probe of a Job is rejected or unreachable counts
\* as one attempt and, while the budget is not used up, schedules the next
\* probe of that Job and leaves polling on.
C12_ThrowIsTransient ==
  [][\A n \in DOMAIN jobs :
       (mounted /\ jobs'[n].errors > jobs[n].errors) =>
         /\ attempts' = attempts + 1
         /\ attempts' < maxAttempts =>
              /\ isPolling' = isPolling
              /\ \E i \in DOMAIN timers' : timers'[i].tid = n]_vars

\* C13: the step on which a probe is rejected or unreachable shows no toast
\* and changes nothing of the state the hook returns.
C13_ThrowIsInvisible ==
  [][(\E n \in DOMAIN jobs : jobs'[n].errors > jobs[n].errors) =>
       UNCHANGED <<lastToast, routerVars, file, isSubmitting, isPolling,
                   prediction>>]_vars

\* the state usePrediction returns to its caller
View == <<file, isSubmitting, isPolling, prediction>>
\* what the caller is shown once the server has reported the Job as failed
FailedView == <<XRay, FALSE, FALSE, NoPrediction>>
FailedViewShown ==
  mounted /\ Len(jobs) = 1 /\ jobs[1].last = "failed" /\ View = FailedView

\* C14: a Job that ran out of its budget never presents the state a Job
\* reported as failed presents.
C14_ExhaustedDistinctFromFailed ==
  (mounted /\ Len(jobs) = 1 /\ jobs[1].last = "exhausted") =>
    View # FailedView

\* C15: a terminal Job stays as it is: while it is the only Job of a mounted
\* instance, no later step issues a probe for it or changes its recorded
\* outcome.
C15_TerminalIsSticky ==
  [][(mounted /\ Len(jobs') = 1 /\ Len(jobs) = 1 /\ Terminal(1)) =>
       jobs'[1] = jobs[1]]_vars

\* C16: once the (only) Job is terminal and a file is selected, the submit
\* button is enabled.
C16_SubmitPermittedWhenTerminal ==
  (mounted /\ Len(jobs) = 1 /\ Terminal(1) /\ file # NoFile) =>
    ~SubmitDisabled

\* C17: attempts never decreases and never exceeds maxAttempts, here for a
\* mounted instance with a single Job.
C17_AttemptsWithinBudget ==
  [][(mounted /\ Len(jobs') = 1) =>
       attempts <= attempts' /\ attempts' <= maxAttempts]_vars

\* C18: a Job submitted after every earlier Job was over starts at attempt 0:
\* its first probe is issued with attempts = 0.
C18_FreshJobStartsAtZero ==
  [][\A n \in DOMAIN jobs :
       (jobs[n].fresh /\ jobs[n].probes = 0 /\ jobs'[n].probes = 1) =>
         attempts = 0]_vars

\* C19: the step on which a submission is rejected resets isSubmitting, stores
\* no task identifier and starts no polling; no probe or timer ever carries
\* the task of a rejected submission.
C19_RejectedSubmissionLeavesNoJob ==
  [][\A n \in DOMAIN jobs' :
       jobs'[n].resp = "error" =>
         /\ jobs'[n].probes = 0
         /\ \A i \in DOMAIN timers' : timers'[i].tid # n
         /\ \A i \in DOMAIN probes' : probes'[i].tid # n
         /\ (n \in DOMAIN jobs /\ jobs[n].resp = "pending") =>
              /\ mounted => isSubmitting' = FALSE
              /\ UNCHANGED <<taskId, predictionId, prediction, isPolling,
                             attempts, timers, probes, routerVars>>]_vars

\* C19 witness: the only submission was rejected while mounted.
C19_Witness ==
  /\ mounted /\ Len(jobs) = 1 /\ jobs[1].resp = "error"
  /\ ~isSubmitting /\ taskId = Null /\ ~isPolling
  /\ lastToast = "Network Error" /\ timers = << >> /\ probes = << >>

\* C20: whatever its probes answer, the single Job of a mounted instance is
\* probed at most maxAttempts times.
C20_AtMostMaxAttemptsProbes ==
  (mounted /\ Len(jobs) = 1) => jobs[1].probes <= maxAttempts

\* C21: the step that applies a dispatched response to the mounted instance
\* stores its task_id (and its prediction_id, when it carries one) and leaves
\* the polling effect to run; that run turns isPolling on and schedules tick
\* for the stored ids; every timer and every probe carries the task_id of a
\* dispatched Job and, when that Job's response carried one, its
\* prediction_id.
C21_DispatchedStartsPolling ==
  [][/\ \A n \in DOMAIN jobs :
          (mounted /\ jobs[n].resp = "pending"
             /\ jobs'[n].resp = "dispatched") =>
            /\ taskId' = TaskIdOf(n)
            /\ jobs'[n].pid # Null => predictionId' = jobs'[n].pid
            /\ isSubmitting' = FALSE
            /\ EffectPending'
     /\ (effectDeps'.tid # effectDeps.tid) =>
          /\ isPolling'
          /\ \E i \in DOMAIN timers' :
               /\ timers'[i].held
               /\ timers'[i].tid = taskId /\ timers'[i].pid = predictionId
     /\ \A i \in DOMAIN timers' :
          /\ jobs'[timers'[i].tid].resp = "dispatched"
          /\ jobs'[timers'[i].tid].pid \in {Null, timers'[i].pid}
     /\ \A i \in DOMAIN probes' :
          /\ jobs'[probes'[i].tid].resp = "dispatched"
          /\ jobs'[probes'[i].tid].pid \in {Null, probes'[i].pid}]_vars

\* C21 witness: a probe of the only Job is in flight with the task_id and the
\* prediction_id its dispatched response carried.
C21_Witness ==
  /\ mounted /\ Len(jobs) = 1 /\ jobs[1].resp = "dispatched"
  /\ jobs[1].pid = PredictionIdOf(1) /\ taskId = TaskIdOf(1)
  /\ isPolling /\ Len(probes) = 1
  /\ probes[1].tid = TaskIdOf(1) /\ probes[1].pid = PredictionIdOf(1)

\* C22: the submission request of every Job carries each non-empty patient
\* detail passed to submit(), and omits the empty ones.
C22_MetadataIsSubmitted ==
  \A n \in DOMAIN jobs : \A k \in MetaFields :
    IF jobs[n].meta[k] # ""
      THEN k \in DOMAIN jobs[n].form /\ jobs[n].form[k] = jobs[n].meta[k]
      ELSE k \notin DOMAIN jobs[n].form

\* C23: a step on which submit() is accepted (isSubmitting goes up) issues
\* exactly one uploadImage call; no other step issues one; and while no file
\* is selected no step issues a call or changes the state of the Job.
C23_OneCallPerAcceptedSubmit ==
  [][/\ (~isSubmitting /\ isSubmitting') =>
          /\ uploadCalls' = uploadCalls + 1
          /\ Len(uploads') = Len(uploads) + 1
     /\ (uploadCalls' # uploadCalls \/ Len(uploads') > Len(uploads)) =>
          /\ file # NoFile
          /\ ~isSubmitting /\ isSubmitting'
     /\ (file = NoFile /\ file' = NoFile) =>
          UNCHANGED <<isSubmitting, taskId, predictionId, prediction,
                      isPolling, attempts, uploads, probes, jobs>>]_vars

\* C23 witness: a submit() without a file was turned down, then a file was
\* selected and one submit() was accepted: one call is outstanding.
C23_Witness ==
  /\ lastToast = "Please select an image first."
  /\ file = XRay /\ isSubmitting
  /\ uploadCalls = 1 /\ Len(uploads) = 1

\* a Job has reached Succeeded: a cache hit or a completed probe carried its
\* result
Succeeded(n) == jobs[n].result # NoPrediction

\* C24: a Job is handed off once if it reached Succeeded and never
\* otherwise; the step that hands it off passes on the prediction the
\* response carried and routes to that prediction's id.
C24_ExactlyOneHandoff ==
  [][\A n \in DOMAIN jobs' :
       /\ jobs'[n].handoffs = IF Succeeded(n)' THEN 1 ELSE 0
       /\ (n \in DOMAIN jobs /\ jobs'[n].handoffs # jobs[n].handoffs) =>
            /\ handoff' = jobs'[n].result
            /\ route' = "result" /\ routeId' = jobs'[n].result.id]_vars

C26_SubmittingExcludesPolling ==
  /\ uploads # << >> => timers = << >> /\ probes = << >>
  /\ ~(isSubmitting /\ isPolling)

\* the step that stops polling: the instance is unmounted by a route change
\* of the user and the effect's cleanup runs
Stopped == mounted /\ ~mounted' /\ route' = "other"

C28_ChecksGateTheFile ==
  [][/\ file' # file =>
          /\ file'.type \in {"image/jpeg", "image/jpg", "image/png"}
          /\ file'.size <= 10 * 1024 * 1024
          /\ file'.readable /\ file'.width >= 224 /\ file'.height >= 224
     /\ (lastToast' # lastToast /\
         lastToast' \in {"Only JPG and PNG images are allowed.",
                         "File too large. Maximum allowed size is 10MB.",
                         "Could not read image dimensions.",
                         "Image dimensions are too small for reliable analysis."})
          => file' = file
     /\ Len(jobs') > Len(jobs) =>
          jobs'[Len(jobs')].form["image"] = file]_vars

\* C28 witness: a 10MB JPEG was selected, an oversized file was then turned
\* down, and the JPEG was submitted.
C28_Witness ==
  /\ file.type = "image/jpeg" /\ file.size = 10 * 1024 * 1024
  /\ lastToast = "File too large. Maximum allowed size is 10MB."
  /\ Len(jobs) = 1 /\ jobs[1].form["image"] = file

\* the Job the controller is working on: the latest submission
Current == Len(jobs)

\* C29: the stored prediction is non-null only if the current Job's cache
\* hit or completed probe carried it.
C29_ResultOnlyWhenSucceeded ==
  prediction # NoPrediction =>
    /\ jobs # << >>
    /\ jobs[Current].result = prediction
    /\ jobs[Current].resp = "cached" \/ jobs[Current].last = "completed"

\* C30: no task identifier is stored before the first submission, and while
\* a Job submitted after every earlier Job was over is Submitting or ended
\* by a rejected submission, none is stored either.
C30_TaskIdOnlyWhenPolling ==
  /\ jobs = << >> => taskId = Null
  /\ (mounted /\ jobs # << >> /\ jobs[Current].fresh
        /\ jobs[Current].resp \in {"pending", "error"}) =>
       taskId = Null

\* C31: while the only Job of the mounted instance is Polling (its dispatched
\* response applied, no terminal outcome yet), isSubmitting or isPolling is
\* set, so the submit button is disabled; and isPolling is set whenever a
\* timer is pending or a probe is in flight.
C31_BusyWhilePolling ==
  (mounted /\ Len(jobs) = 1) =>
    /\ Polling(1) => (isSubmitting \/ isPolling) /\ SubmitDisabled
    /\ (timers # << >> \/ probes # << >>) => isPolling

\* C32: every probe of a Job submitted after every earlier Job was over
\* carries the prediction_id of that Job's own dispatched response, and no
\* hint (Null) when the response carried none.
C32_HintBelongsToTheJob ==
  \A i \in DOMAIN probes :
    jobs[probes[i].tid].fresh => probes[i].pid = jobs[probes[i].tid].pid

\* C33: in the History view, once every issued request has settled (none
\* of them rejected), the items and the count shown are those of the
\* response to the current query (page, disease filter, search), whatever
\* the order of the responses; and loading is true while a request is in
\* flight.
C33_LatestQueryIsShown ==
  /\ (fetched > 0 /\ fetches = << >> /\ ~fetchFailed) =>
       /\ items = ResponseTo(Params(page, diseaseFilter, search)).results
       /\ count = ResponseTo(Params(page, diseaseFilter, search)).count
  /\ fetches # << >> => historyLoading

\* C34: ProtectedRoute renders its children only when loading is false and
\* there is a user, and with requireAdmin only when the user is a
\* superuser; while loading it renders the spinner (neither children nor a
\* redirect), without a user it redirects to /login, and with a user who is
\* not a superuser on an admin route it redirects to /.
C34_ChildrenOnlyWhenAuthorised ==
  \A requireAdmin \in BOOLEAN :
    LET rendered == ProtectedRoute(requireAdmin)
        allowed == user # NoUser /\ (requireAdmin => user.is_superuser)
    IN  /\ rendered = "children" <=> (~loading /\ allowed)
        /\ loading => rendered = "spinner"
        /\ (~loading /\ user = NoUser) => rendered = "/login"
        /\ (~loading /\ user # NoUser /\ ~allowed) => rendered = "/"

\* a doctor (not a superuser) is signed in: the admin route redirects to /
C34_Witness ==
  /\ ~loading /\ user = UserOf("doctor.jwt")
  /\ ProtectedRoute(TRUE) = "/" /\ ProtectedRoute(FALSE) = "children"

\* C35: across mounts, logins and logouts, user is non-null only if an
\* accessToken is stored; after logout user is null and both tokens are
\* absent; a mount that finds an expired or undecodable access token
\* removes both tokens, leaves user null and ends with loading = false.
C35_SessionIsConsistent ==
  [][/\ user' # NoUser => accessToken' # NoToken
     /\ (~loading /\ ~loading' /\ user # NoUser /\ user' = NoUser) =>
          accessToken' = NoToken /\ refreshToken' = NoToken
     /\ (loading /\ (Undecodable(accessToken) \/ Expired(accessToken))) =>
          /\ accessToken' = NoToken /\ refreshToken' = NoToken
          /\ user' = NoUser /\ ~loading']_vars

\* a mount has found an expired access token
C35_Witness ==
  /\ found = "expired.jwt" /\ ~loading /\ user = NoUser
  /\ accessToken = NoToken /\ refreshToken = NoToken

\* C36: a login() that returns success: false leaves user and both stored
\* tokens as they were, whether the request or the decoding failed; tokens
\* are written only by a login() that returns success: true.
C36_FailedLoginChangesNothing ==
  [][(Len(logins') < Len(logins) /\ ~loading') =>
       /\ loginResult' = "success: false" =>
            UNCHANGED <<user, accessToken, refreshToken>>
       /\ (accessToken' # accessToken \/ refreshToken' # refreshToken) =>
            loginResult' = "success: true"]_vars

====
